---- MODULE Spec2Model ----
(***************************************************************************)
(* SunstrongClient (sunstrong_scraper.py): the bearer token, its derived   *)
(* expiry, the refresh against the auth endpoint and the two-attempt       *)
(* fetch_current_power loop.  A step of the model runs the client from one *)
(* blocking point (a call boundary or an HTTP request in flight) to the    *)
(* next; the endpoints' responses and the clock are the inputs.            *)
(***************************************************************************)
EXTENDS Integers, Sequences, FiniteSets, TLC

VARIABLES
    token,      \* config.token
    expiry,     \* self._token_expiry: None or Some(exp)
    username,   \* config.username
    password,   \* config.password
    now,        \* int(time.time())
    pc,         \* where the client is: "idle", "ensure", "refresh", "auth_wait", "query_wait"
    attempt,    \* the loop variable of fetch_current_power
    ctx,        \* who called refresh_access_token: "direct", "ensure", "retry"
    op,         \* the public operation in progress (or the last one): "fetch", "ensure", "refresh"
    log,        \* history: what the current operation did, in order
    outcome,    \* how the operation ended: "pending", "ok", "Reading" or the error raised
    bearer,     \* the token in the authorization header of the last query sent
    firstResp,  \* history: the response to the query of attempt 0
    lastResp,   \* history: the latest query response
    lastAuth,   \* history: the latest auth-endpoint response
    granted,    \* history: the token of the latest successful refresh (<<>> if none yet)
    prev,       \* history: how the previous operation ended, as far as the token goes
    twin,       \* a second run of the client, for comparing two runs (SpecPair)
    loop        \* main()'s polling loop around the client (SpecLoop)

vars == <<token, expiry, username, password, now, pc, attempt, ctx, op, log,
          outcome, bearer, firstResp, lastResp, lastAuth, granted, prev, twin,
          loop>>

----------------------------------------------------------------------------
(* Bounds and program constants *)

StartTime == 100      \* the clock's value at construction
MaxTick == 2          \* the clock advances at most this far
ExpirySkew == 60      \* line 78: now >= expiry - 60
MaxAttempts == 2      \* line 93: range(2)

----------------------------------------------------------------------------
(* Tokens.  A token is the sequence of its dot-separated segments (what    *)
(* token.split(".") yields); a segment is described by what decoding it    *)
(* as base64url JSON gives.                                                *)

None == <<>>
Some(x) == <<x>>

Seg(k, v) == [kind |-> k, val |-> v]

\* "" : one empty segment
EmptyToken == <<Seg("empty", 0)>>
\* "token" : one segment, not a JWT
OpaqueToken == <<Seg("garbage", 1)>>
\* "not.a.jwt" : three segments, the middle one not base64 JSON
NotAJwt == <<Seg("garbage", 2), Seg("garbage", 3), Seg("garbage", 4)>>
\* header.{"exp": e}.sig, issued under signature id
Jwt(e, id) == <<Seg("no_exp", 0), Seg("exp_int", e), Seg("garbage", id)>>
\* header.{"exp": "e"}.sig : exp a numeric string
JwtStrExp(e, id) == <<Seg("no_exp", 0), Seg("exp_str", e), Seg("garbage", id)>>
\* header.{"exp": null}.sig
JwtNullExp(id) == <<Seg("no_exp", 0), Seg("exp_null", 0), Seg("garbage", id)>>
\* header.{"sub": ...}.sig : no exp claim
JwtNoExp(id) == <<Seg("no_exp", 0), Seg("no_exp", 0), Seg("garbage", id)>>

\* _jwt_expiry
JwtExpiry(tok) ==
    IF Len(tok) < 2 THEN None
    ELSE LET p == tok[2] IN
         CASE p.kind = "exp_int" -> Some(p.val)     \* int(data.get("exp"))
           [] p.kind = "exp_str" -> Some(p.val)     \* int("161")
           [] p.kind = "exp_null" -> None           \* int(None): TypeError, caught
           [] p.kind = "no_exp" -> None             \* "exp" not in data
           [] OTHER -> None                         \* b64 or JSON decoding fails, caught

\* mutant: the empty token is not noticed
TokenNeverFalsy(tok) == FALSE

\* Python truthiness of a str: `not self.config.token`
TokenFalsy(tok) == tok = EmptyToken

\* Python truthiness of int | None: `if self._token_expiry`
ExpiryTruthy(e) == e # None /\ e[1] # 0

\* Python truthiness of str | None: `not self.config.username`
StrFalsy(s) == s \in {"None", ""}

----------------------------------------------------------------------------
(* Responses *)

AResp(st, k, t) == [status |-> st, kind |-> k, tok |-> t]
QResp(st, k, e) == [status |-> st, kind |-> k, errors |-> e]
NoAuth == AResp(-1, "none", <<>>)
NoResp == QResp(-1, "none", <<>>)

\* requests raises (timeout, connection error): status 0, no response
NetFail == 0

\* mutant: only 4xx raise
RaisesForClientError(st) == st >= 400 /\ st < 500

\* Response.raise_for_status: HTTPError for 4xx and 5xx, nothing otherwise
RaisesForStatus(st) == st >= 400 /\ st < 600

\* the tokens the auth endpoint hands out
GrantedTokens ==
    { Jwt(StartTime + 1000, 9),      \* fresh
      Jwt(StartTime + 20, 9),        \* already within the skew of its expiry
      JwtNoExp(9) }

AuthResponses ==
    { AResp(NetFail, "none", <<>>) }
    \cup { AResp(st, "token", t) : st \in {200, 302}, t \in GrantedTokens }
    \cup { AResp(st, k, <<>>) : st \in {200, 302},
                                k \in {"notjson", "no_token", "null_token"} }
    \cup { AResp(200, "token", EmptyToken) }
    \cup { AResp(st, "token", Jwt(StartTime + 1000, 9)) : st \in {401, 500} }
    \cup { AResp(500, "notjson", <<>>) }

\* the errors lists of query bodies: each message a word
ErrorLists ==
    { << "UNAUTHENTICATED" >>, << "Not found", "Unauthorized" >>,
      << "unauthorized" >>, << >> }

QueryBodies ==
    { QResp(0, "errors", e) : e \in ErrorLists }
    \cup { QResp(0, k, <<>>) : k \in {"notjson", "no_data", "data_null",
                                        "cp_empty", "cp_bad", "cp_ok"} }

\* every body under status 200; under the other statuses one body with a
\* marker in its errors and one full reading
QueryResponses ==
    { QResp(NetFail, "none", <<>>) }
    \cup { [b EXCEPT !.status = 200] : b \in QueryBodies }
    \cup { QResp(st, "errors", << "Not found", "Unauthorized" >>) :
              st \in {201, 302, 401, 403, 500} }
    \cup { QResp(st, "cp_ok", <<>>) : st \in {201, 302, 401, 403, 500} }

----------------------------------------------------------------------------
(* The client's state as one record, so that a step is a function of it.   *)

Cur == [token |-> token, expiry |-> expiry, pc |-> pc, attempt |-> attempt,
        ctx |-> ctx, op |-> op, log |-> log, outcome |-> outcome,
        bearer |-> bearer, firstResp |-> firstResp, lastResp |-> lastResp,
        lastAuth |-> lastAuth, granted |-> granted, prev |-> prev]

Install(s) ==
    /\ token' = s.token
    /\ expiry' = s.expiry
    /\ pc' = s.pc
    /\ attempt' = s.attempt
    /\ ctx' = s.ctx
    /\ op' = s.op
    /\ log' = s.log
    /\ outcome' = s.outcome
    /\ bearer' = s.bearer
    /\ firstResp' = s.firstResp
    /\ lastResp' = s.lastResp
    /\ lastAuth' = s.lastAuth
    /\ granted' = s.granted
    /\ prev' = s.prev

\* an exception propagates out of the public operation
Raise(s, err) == [s EXCEPT !.pc = "idle", !.outcome = err]

\* the public operation returns
Return(s, res) == [s EXCEPT !.pc = "idle", !.outcome = res]

\* what the operation that just ended did to the token
Summary(s) ==
    IF s.op = "fetch" /\ (\E i \in 1..Len(s.log) : s.log[i] = "installed")
    THEN IF s.outcome = "Reading" THEN "refreshed_read"
         ELSE IF s.attempt = 1 THEN "refreshed_failed1"
         ELSE "other"
    ELSE "other"

\* a public operation is entered
Enter(s, o, p, c) ==
    [s EXCEPT !.op = o, !.pc = p, !.ctx = c, !.attempt = 0, !.log = <<>>,
              !.outcome = "pending", !.firstResp = NoResp, !.lastResp = NoResp,
              !.lastAuth = NoAuth, !.prev = Summary(s)]

\* self.refresh_access_token() is called (lines 74, 79, 111, 121)
CallRefresh(s, c) ==
    [s EXCEPT !.pc = "refresh", !.ctx = c, !.log = Append(@, "refresh")]

\* lines 96-108: the query is posted with the headers of _headers()
SendQuery(s) ==
    [s EXCEPT !.pc = "query_wait", !.bearer = s.token, !.log = Append(@, "query")]

\* mutant: the retry starts the loop over
ContinueFromStart(s) == [s EXCEPT !.attempt = 0, !.pc = "ensure"]

\* `continue` at lines 112 and 122; line 140 when the loop runs out
Continue(s) ==
    IF s.attempt + 1 < MaxAttempts
    THEN [s EXCEPT !.attempt = @ + 1, !.pc = "ensure"]
    ELSE Raise(s, "RetryExhausted")

\* mutant: only the username is tested
CredsMissingUserOnly == StrFalsy(username)

\* line 44
CredsMissing == StrFalsy(username) \/ StrFalsy(password)

\* lines 43-61: refresh_access_token up to the auth request
RefreshAccessToken(s) ==
    IF CredsMissing
    THEN Raise(s, "MissingCredentials")
    ELSE [s EXCEPT !.pc = "auth_wait", !.log = Append(@, "auth")]

\* mutant: an empty access_token passes
AccessTokenAbsent(r) == r.kind \in {"no_token", "null_token"}

\* line 66: `not access_token`
AccessTokenFalsy(r) == r.kind \in {"no_token", "null_token"} \/ TokenFalsy(r.tok)

\* mutant: line 69 lost, the token is not stored
InstallTokenKeepsToken(s, at) ==
    [s EXCEPT !.expiry = JwtExpiry(at), !.granted = at,
              !.log = Append(@, "installed")]

\* mutant: line 70 lost, the expiry is not recomputed
InstallTokenStaleExpiry(s, at) ==
    [s EXCEPT !.token = at, !.granted = at, !.log = Append(@, "installed")]

\* lines 69-70
InstallToken(s, at) ==
    [s EXCEPT !.token = at, !.expiry = JwtExpiry(at), !.granted = at,
              !.log = Append(@, "installed")]

\* refresh_access_token returns to its caller
AfterRefresh(s) ==
    CASE s.ctx = "retry" -> Continue(s)
      [] s.ctx = "ensure" /\ s.op = "fetch" -> SendQuery(s)
      [] OTHER -> Return(s, "ok")

\* lines 61-70: refresh_access_token from the auth response on
OnAuthResponse(s, r) ==
    LET s1 == [s EXCEPT !.lastAuth = r] IN
    IF r.status = NetFail THEN Raise(s1, "RequestException")
    ELSE IF RaisesForStatus(r.status) THEN Raise(s1, "AuthHTTPError")
    ELSE IF r.kind = "notjson" THEN Raise(s1, "JSONDecodeError")
    ELSE IF AccessTokenFalsy(r) THEN Raise(s1, "AuthMissingToken")
    ELSE AfterRefresh(InstallToken(s1, r.tok))

\* lines 76-78: the proactive expiry test
NeedsRefresh(e, t) == ExpiryTruthy(e) /\ t >= e[1] - ExpirySkew

\* mutant: an unknown expiry is taken for an expired one
EnsureRefreshesUnknownExpiry(s, t) ==
    IF TokenFalsy(s.token) \/ s.expiry = None THEN CallRefresh(s, "ensure")
    ELSE IF NeedsRefresh(s.expiry, t) THEN CallRefresh(s, "ensure")
    ELSE IF s.op = "fetch" THEN SendQuery(s)
    ELSE Return(s, "ok")

\* ensure_token_valid, read at clock t
EnsureTokenValid(s, t) ==
    IF TokenFalsy(s.token) THEN CallRefresh(s, "ensure")
    ELSE IF NeedsRefresh(s.expiry, t) THEN CallRefresh(s, "ensure")
    ELSE IF s.op = "fetch" THEN SendQuery(s)
    ELSE Return(s, "ok")

\* mutant: a server error is taken for an auth rejection
AuthRejectOrServerError(st) == st \in {401, 403, 500}

\* line 110: resp.status_code in (401, 403)
AuthRejectStatus(st) == st \in {401, 403}

\* mutant: every attempt of the loop may retry
RetryWithinLoop(a) == a < MaxAttempts

\* mutant: the attempt is not tested
RetryAlways(a) == TRUE

\* lines 110, 120: attempt == 0
RetryAllowed(a) == a = 0

\* line 119: the marker strings
AuthFailureMarkers == {"UNAUTHENTICATED", "Unauthorized"}

\* mutant: only one of the two markers is looked for
HasUnauthenticatedOnly(errs) ==
    \E i \in 1..Len(errs) : errs[i] = "UNAUTHENTICATED"

\* line 119: a marker in the serialized errors
HasAuthMarker(errs) ==
    \E i \in 1..Len(errs) : errs[i] \in AuthFailureMarkers

\* lines 125-138: the body with no errors key
OnData(s, r) ==
    CASE r.kind = "data_null" -> Raise(s, "AttributeError")   \* None.get
      [] r.kind \in {"no_data", "cp_empty"} -> Raise(s, "NoCurrentPower")
      [] r.kind = "cp_bad" -> Raise(s, "FieldError")          \* KeyError, ValueError
      [] OTHER -> Return(s, "Reading")

\* lines 110-138: fetch_current_power from the query response on
OnQueryResponse(s, r) ==
    LET s1 == [s EXCEPT !.lastResp = r,
                        !.firstResp = IF s.attempt = 0 THEN r ELSE @,
                        !.log = Append(@, "qresp")] IN
    IF r.status = NetFail THEN Raise(s1, "RequestException")
    ELSE IF AuthRejectStatus(r.status) /\ RetryAllowed(s.attempt)
         THEN CallRefresh(s1, "retry")
    ELSE IF RaisesForStatus(r.status) THEN Raise(s1, "QueryHTTPError")
    ELSE IF r.kind = "notjson" THEN Raise(s1, "JSONDecodeError")
    ELSE IF r.kind = "errors"
         THEN IF HasAuthMarker(r.errors) /\ RetryAllowed(s.attempt)
              THEN CallRefresh(s1, "retry")
              ELSE Raise(s1, "GraphQLErrors")
    ELSE OnData(s1, r)

----------------------------------------------------------------------------
(* The state machine *)

InitTokens ==
    { EmptyToken, OpaqueToken, NotAJwt,
      Jwt(0 - 5, 1), Jwt(0, 1), Jwt(StartTime + ExpirySkew + 1, 1),
      JwtStrExp(StartTime - 50, 1), JwtNullExp(1), Jwt(StartTime + 1000, 1) }

InitCreds == { <<"u", "p">>, <<"None", "p">>, <<"u", "">> }

\* SunstrongClient.__init__
InitClient ==
    /\ token \in InitTokens
    /\ expiry = JwtExpiry(token)
    /\ \E c \in InitCreds : username = c[1] /\ password = c[2]
    /\ now = StartTime
    /\ pc = "idle"
    /\ attempt = 0
    /\ ctx = "none"
    /\ op = "none"
    /\ log = <<>>
    /\ outcome = "pending"
    /\ bearer = <<>>
    /\ firstResp = NoResp
    /\ lastResp = NoResp
    /\ lastAuth = NoAuth
    /\ granted = <<>>
    /\ prev = "other"
    /\ twin = [token |-> token, expiry |-> JwtExpiry(token), pc |-> "idle",
               attempt |-> 0, ctx |-> "none", op |-> "none", log |-> <<>>,
               outcome |-> "pending", bearer |-> <<>>, firstResp |-> NoResp,
               lastResp |-> NoResp, lastAuth |-> NoAuth, granted |-> <<>>,
               prev |-> "other"]

\* main() before its loop, as args and position; no loop around the client in Spec
LoopAt(p, once, output, bucket, grafana) ==
    [pc |-> p, once |-> once, output |-> output, bucket |-> bucket,
     grafana |-> grafana, fetches |-> 0, writes |-> <<>>, exit |-> "none"]

NoLoop == LoopAt("none", TRUE, "none", FALSE, FALSE)

Init == InitClient /\ loop = NoLoop

\* the clock moves while the client is blocked or between calls
Tick ==
    /\ pc \in {"idle", "auth_wait", "query_wait"}
    /\ now < StartTime + MaxTick
    /\ now' = now + 1
    /\ UNCHANGED <<token, expiry, username, password, pc, attempt, ctx, op, log,
                   outcome, bearer, firstResp, lastResp, lastAuth, granted,
                   prev, twin, loop>>

\* a caller invokes fetch_current_power
FetchCurrentPower ==
    /\ pc = "idle"
    /\ Install(Enter(Cur, "fetch", "ensure", "none"))
    /\ UNCHANGED <<username, password, now, twin, loop>>

\* a caller invokes ensure_token_valid
CallEnsureTokenValid ==
    /\ pc = "idle"
    /\ Install(Enter(Cur, "ensure", "ensure", "none"))
    /\ UNCHANGED <<username, password, now, twin, loop>>

\* a caller invokes refresh_access_token
CallRefreshAccessToken ==
    /\ pc = "idle"
    /\ Install(CallRefresh(Enter(Cur, "refresh", "refresh", "direct"), "direct"))
    /\ UNCHANGED <<username, password, now, twin, loop>>

\* ensure_token_valid runs (line 94, or the direct call)
Ensure ==
    /\ pc = "ensure"
    /\ Install(EnsureTokenValid(Cur, now))
    /\ UNCHANGED <<username, password, now, twin, loop>>

\* refresh_access_token runs up to its request
Refresh ==
    /\ pc = "refresh"
    /\ Install(RefreshAccessToken(Cur))
    /\ UNCHANGED <<username, password, now, twin, loop>>

\* the auth endpoint answers
AuthResponse ==
    /\ pc = "auth_wait"
    /\ \E r \in AuthResponses : Install(OnAuthResponse(Cur, r))
    /\ UNCHANGED <<username, password, now, twin, loop>>

\* the query endpoint answers
QueryResponse ==
    /\ pc = "query_wait"
    /\ \E r \in QueryResponses : Install(OnQueryResponse(Cur, r))
    /\ UNCHANGED <<username, password, now, twin, loop>>

Next ==
    \/ Tick
    \/ FetchCurrentPower
    \/ CallEnsureTokenValid
    \/ CallRefreshAccessToken
    \/ Ensure
    \/ Refresh
    \/ AuthResponse
    \/ QueryResponse

Spec == Init /\ [][Next]_vars

\* The client's code runs on once entered, and every HTTP call completes: both
\* requests.post calls pass timeout=30 (lines 61 and 107).
SpecFair ==
    /\ Spec
    /\ WF_vars(Ensure)
    /\ WF_vars(Refresh)
    /\ WF_vars(AuthResponse)
    /\ WF_vars(QueryResponse)

----------------------------------------------------------------------------
(* main() of sunstrong_cli.py: the polling loop.  args.once, args.output,  *)
(* args.gcs_bucket and the grafana settings are fixed at start; a sink     *)
(* write succeeds or raises.                                               *)

\* the invocations explored: (--once, --output, bucket given, grafana given)
LoopStarts ==
    { LoopAt("top", TRUE, "none", FALSE, FALSE),
      LoopAt("top", TRUE, "postgres", FALSE, TRUE),
      LoopAt("top", FALSE, "gcs", TRUE, TRUE),
      LoopAt("top", FALSE, "gcs", FALSE, FALSE),
      LoopAt("top", FALSE, "postgres", FALSE, FALSE) }

\* line 201: main refuses an empty token
LoopTokens == { t \in InitTokens : ~TokenFalsy(t) }

InitLoop == InitClient /\ token \in LoopTokens /\ loop \in LoopStarts

\* mutant: a failed fetch is swallowed and the cycle goes on
AfterFetchSwallows(l, s) ==
    IF s.pc # "idle" THEN l ELSE [l EXCEPT !.pc = "output"]

\* line 221: fetch_current_power returns a row, or its exception leaves main
AfterFetch(l, s) ==
    IF s.pc # "idle" THEN l
    ELSE IF s.outcome = "Reading" THEN [l EXCEPT !.pc = "output"]
    ELSE [l EXCEPT !.pc = "exited", !.exit = "fetch_failed"]

\* lines 228-239: the gcs or postgres write
WriteOutput(l, ok) ==
    IF l.output = "none" THEN [l EXCEPT !.pc = "metrics"]
    ELSE IF l.output = "gcs" /\ ~l.bucket
         THEN [l EXCEPT !.pc = "exited", !.exit = "SystemExit"]
    ELSE IF ok THEN [l EXCEPT !.pc = "metrics", !.writes = Append(@, l.output)]
    ELSE [l EXCEPT !.pc = "exited", !.exit = "sink_failed"]

\* lines 241-249: the metrics push
PushMetrics(l, ok) ==
    IF ~l.grafana THEN [l EXCEPT !.pc = "end"]
    ELSE IF ok THEN [l EXCEPT !.pc = "end", !.writes = Append(@, "grafana")]
    ELSE [l EXCEPT !.pc = "exited", !.exit = "sink_failed"]

\* lines 251-254: break, or sleep
EndOfCycle(l) ==
    IF l.once THEN [l EXCEPT !.pc = "exited", !.exit = "once"]
    ELSE [l EXCEPT !.pc = "sleep"]

\* line 221: the loop calls fetch_current_power
LoopFetch ==
    /\ loop.pc = "top"
    /\ pc = "idle"
    /\ Install(Enter(Cur, "fetch", "ensure", "none"))
    /\ loop' = [loop EXCEPT !.pc = "fetching", !.fetches = @ + 1]
    /\ UNCHANGED <<username, password, now, twin>>

LoopEnsure ==
    /\ loop.pc = "fetching"
    /\ pc = "ensure"
    /\ LET s == EnsureTokenValid(Cur, now) IN Install(s) /\ loop' = AfterFetch(loop, s)
    /\ UNCHANGED <<username, password, now, twin>>

LoopRefresh ==
    /\ loop.pc = "fetching"
    /\ pc = "refresh"
    /\ LET s == RefreshAccessToken(Cur) IN Install(s) /\ loop' = AfterFetch(loop, s)
    /\ UNCHANGED <<username, password, now, twin>>

LoopAuthResponse ==
    /\ loop.pc = "fetching"
    /\ pc = "auth_wait"
    /\ \E r \in AuthResponses :
          LET s == OnAuthResponse(Cur, r) IN Install(s) /\ loop' = AfterFetch(loop, s)
    /\ UNCHANGED <<username, password, now, twin>>

LoopQueryResponse ==
    /\ loop.pc = "fetching"
    /\ pc = "query_wait"
    /\ \E r \in QueryResponses :
          LET s == OnQueryResponse(Cur, r) IN Install(s) /\ loop' = AfterFetch(loop, s)
    /\ UNCHANGED <<username, password, now, twin>>

LoopOutput ==
    /\ loop.pc = "output"
    /\ \E ok \in BOOLEAN : loop' = WriteOutput(loop, ok)
    /\ UNCHANGED <<token, expiry, username, password, now, pc, attempt, ctx, op,
                   log, outcome, bearer, firstResp, lastResp, lastAuth, granted,
                   prev, twin>>

LoopMetrics ==
    /\ loop.pc = "metrics"
    /\ \E ok \in BOOLEAN : loop' = PushMetrics(loop, ok)
    /\ UNCHANGED <<token, expiry, username, password, now, pc, attempt, ctx, op,
                   log, outcome, bearer, firstResp, lastResp, lastAuth, granted,
                   prev, twin>>

LoopEnd ==
    /\ loop.pc = "end"
    /\ loop' = EndOfCycle(loop)
    /\ UNCHANGED <<token, expiry, username, password, now, pc, attempt, ctx, op,
                   log, outcome, bearer, firstResp, lastResp, lastAuth, granted,
                   prev, twin>>

\* line 254: time.sleep(args.poll_seconds), then the next cycle
LoopSleep ==
    /\ loop.pc = "sleep"
    /\ now < StartTime + MaxTick
    /\ now' = now + 1
    /\ loop' = [loop EXCEPT !.pc = "top", !.fetches = 0, !.writes = <<>>]
    /\ UNCHANGED <<token, expiry, username, password, pc, attempt, ctx, op, log,
                   outcome, bearer, firstResp, lastResp, lastAuth, granted,
                   prev, twin>>

LoopNext ==
    \/ LoopFetch
    \/ LoopEnsure
    \/ LoopRefresh
    \/ LoopAuthResponse
    \/ LoopQueryResponse
    \/ LoopOutput
    \/ LoopMetrics
    \/ LoopEnd
    \/ LoopSleep

SpecLoop == InitLoop /\ [][LoopNext]_vars

----------------------------------------------------------------------------
(* Two runs of fetch_current_power side by side: the same client, clock    *)
(* and later responses, but the first query is answered with HTTP 401 in   *)
(* one run and with a 2xx body carrying an auth-failure marker in the      *)
(* other (twin).                                                           *)

MarkerBodied(r) ==
    /\ r.status >= 200 /\ r.status < 300
    /\ r.kind = "errors"
    /\ \E i \in 1..Len(r.errors) : r.errors[i] \in AuthFailureMarkers

PairFetch ==
    /\ pc = "idle"
    /\ Install(Enter(Cur, "fetch", "ensure", "none"))
    /\ twin' = Enter(twin, "fetch", "ensure", "none")
    /\ UNCHANGED <<username, password, now, loop>>

PairEnsure ==
    /\ pc = "ensure"
    /\ Install(EnsureTokenValid(Cur, now))
    /\ twin' = EnsureTokenValid(twin, now)
    /\ UNCHANGED <<username, password, now, loop>>

PairRefresh ==
    /\ pc = "refresh"
    /\ Install(RefreshAccessToken(Cur))
    /\ twin' = RefreshAccessToken(twin)
    /\ UNCHANGED <<username, password, now, loop>>

PairAuthResponse ==
    /\ pc = "auth_wait"
    /\ \E r \in AuthResponses :
          /\ Install(OnAuthResponse(Cur, r))
          /\ twin' = OnAuthResponse(twin, r)
    /\ UNCHANGED <<username, password, now, loop>>

PairFirstQueryResponse ==
    /\ pc = "query_wait"
    /\ attempt = 0
    /\ \E r1 \in { r \in QueryResponses : r.status = 401 },
          r2 \in { r \in QueryResponses : MarkerBodied(r) } :
          /\ Install(OnQueryResponse(Cur, r1))
          /\ twin' = OnQueryResponse(twin, r2)
    /\ UNCHANGED <<username, password, now, loop>>

PairQueryResponse ==
    /\ pc = "query_wait"
    /\ attempt > 0
    /\ \E r \in QueryResponses :
          /\ Install(OnQueryResponse(Cur, r))
          /\ twin' = OnQueryResponse(twin, r)
    /\ UNCHANGED <<username, password, now, loop>>

PairTick ==
    /\ pc \in {"idle", "auth_wait", "query_wait"}
    /\ now < StartTime + MaxTick
    /\ now' = now + 1
    /\ UNCHANGED <<token, expiry, username, password, pc, attempt, ctx, op, log,
                   outcome, bearer, firstResp, lastResp, lastAuth, granted,
                   prev, twin, loop>>

PairNext ==
    \/ PairFetch
    \/ PairEnsure
    \/ PairRefresh
    \/ PairAuthResponse
    \/ PairFirstQueryResponse
    \/ PairQueryResponse
    \/ PairTick

SpecPair == Init /\ [][PairNext]_vars

----------------------------------------------------------------------------
(* Reading the history of the current operation *)

Count(lg, ev) == Cardinality({ i \in 1..Len(lg) : lg[i] = ev })

\* the events after the first query response (the whole log if there is none)
AfterFirstResp(lg) ==
    LET idx == { i \in 1..Len(lg) : lg[i] = "qresp" } IN
    IF idx = {} THEN lg
    ELSE LET k == CHOOSE i \in idx : \A j \in idx : i <= j IN SubSeq(lg, k + 1, Len(lg))

IsPrefix(p, lg) == Len(p) <= Len(lg) /\ SubSeq(lg, 1, Len(p)) = p

FetchEnded == op = "fetch" /\ pc = "idle"

\* a query response that yields a reading: no error status, a full currentPower
GoodReading(r) == r.status \in {200, 201, 302} /\ r.kind = "cp_ok"

\* a query response rejected for authentication
AuthRejected(r) ==
    \/ r.status \in {401, 403}
    \/ /\ r.status \in {200, 201, 302}
       /\ r.kind = "errors"
       /\ \E i \in 1..Len(r.errors) : r.errors[i] \in AuthFailureMarkers

----------------------------------------------------------------------------
(* C1 *)

\* C1, as stated: a fetch whose first query is answered 401 or 403 performs
\* exactly one refresh and exactly one retried query after that response; if the
\* retried query succeeds the call returns a reading and the token is the
\* refreshed one.
C1_ExactlyOneRefreshOneRetry ==
    (FetchEnded /\ firstResp.status \in {401, 403}) =>
        LET tail == AfterFirstResp(log) IN
        /\ Count(tail, "refresh") = 1
        /\ Count(tail, "query") = 1
        /\ GoodReading(lastResp) => (outcome = "Reading" /\ token = lastAuth.tok)

\* C1, amended: after a 401 or 403 on attempt 0 the refresh is called at once; one
\* or two refreshes and at most one retried query follow before the call ends, a
\* second refresh only after the first one installed a token, the retried query
\* only after every one of them installed a token; if the retried query succeeds
\* the call returns a reading and the stored token is the one the last refresh
\* returned.
C1_RefreshThenAtMostOneRetry ==
    (FetchEnded /\ firstResp.status \in {401, 403}) =>
        LET tail == AfterFirstResp(log) IN
        /\ IsPrefix(<<"refresh">>, tail)
        /\ Count(tail, "refresh") \in {1, 2}
        /\ Count(tail, "query") <= 1
        /\ Count(tail, "refresh") = 2 =>
               IsPrefix(<<"refresh", "auth", "installed", "refresh">>, tail)
        /\ Count(tail, "query") = 1 =>
               /\ Count(tail, "installed") = Count(tail, "refresh")
               /\ GoodReading(lastResp) =>
                      /\ outcome = "Reading"
                      /\ lastAuth.kind = "token"
                      /\ token = lastAuth.tok
                      /\ expiry = JwtExpiry(lastAuth.tok)

\* C1 witness: a 401 on attempt 0, two refreshes, a retried query that succeeded
C1_Witness ==
    /\ FetchEnded
    /\ firstResp.status = 401
    /\ outcome = "Reading"
    /\ Count(AfterFirstResp(log), "refresh") = 2
    /\ Count(AfterFirstResp(log), "query") = 1

----------------------------------------------------------------------------
(* C2 *)

Comparable(s) ==
    [token |-> s.token, expiry |-> s.expiry, pc |-> s.pc, attempt |-> s.attempt,
     ctx |-> s.ctx, op |-> s.op, log |-> s.log, outcome |-> s.outcome,
     bearer |-> s.bearer, lastAuth |-> s.lastAuth, granted |-> s.granted,
     prev |-> s.prev]

\* C2: the run whose first query got a 2xx body with an auth-failure marker and
\* the run whose first query got HTTP 401 stay in step: the same refreshes and
\* queries in the same order, the same outcome, the same token and expiry.
C2_MarkerRunsLike401 == Comparable(Cur) = Comparable(twin)

\* C2 witness: both runs retried and ended with a reading
C2_Witness ==
    /\ FetchEnded
    /\ outcome = "Reading"
    /\ attempt = 1
    /\ firstResp.status = 401
    /\ MarkerBodied(twin.firstResp)
    /\ twin.outcome = "Reading"

----------------------------------------------------------------------------
(* C3 *)

\* C3: once a query is answered with HTTP 500 (attempt 0 or 1) the call has
\* failed with the query endpoint's HTTP error, that response is the last thing
\* the call did, and the token and expiry are those the query was sent with.
C3_Http500FailsAtOnce ==
    lastResp.status = 500 =>
        /\ pc = "idle"
        /\ outcome = "QueryHTTPError"
        /\ log[Len(log)] = "qresp"
        /\ Count(log, "query") = attempt + 1
        /\ token = bearer
        /\ expiry = JwtExpiry(bearer)

\* C3 witness: the retried query was answered with 500
C3_Witness ==
    /\ lastResp.status = 500
    /\ attempt = 1
    /\ firstResp.status = 403

----------------------------------------------------------------------------
(* C4 *)

\* C4, as stated: when ensure_token_valid runs with a known expiry in the past
\* (any integer below the clock, 0 and negatives included) it calls the refresh,
\* once, before any query of that attempt is sent.
C4_ExpiredAlwaysRefreshes ==
    [][ (pc = "ensure" /\ expiry # None /\ expiry[1] < now) =>
            (pc' = "refresh" /\ log' = Append(log, "refresh")) ]_vars

----------------------------------------------------------------------------
(* C5 *)

\* C5: when ensure_token_valid runs with a non-empty token and no known expiry,
\* at any clock value, it calls no refresh, sends nothing to the auth endpoint
\* and leaves token and expiry as they are.
C5_NoExpiryNoRefresh ==
    [][ (pc = "ensure" /\ token # EmptyToken /\ expiry = None) =>
            /\ pc' \notin {"refresh", "auth_wait"}
            /\ log' \in {log, Append(log, "query")}
            /\ token' = token
            /\ expiry' = expiry ]_vars

\* C5 witness: ensure_token_valid returned, later than construction, having done
\* nothing on a non-empty token without expiry
C5_Witness ==
    /\ op = "ensure"
    /\ pc = "idle"
    /\ outcome = "ok"
    /\ log = <<>>
    /\ token # EmptyToken
    /\ expiry = None
    /\ now > StartTime

----------------------------------------------------------------------------
(* C6 *)

\* C6: refresh_access_token entered (from any caller) with username or password
\* absent or empty raises the missing-credentials error, sends no auth request
\* and leaves token and expiry as they are.
C6_NoCredentialsNoRequest ==
    [][ (pc = "refresh" /\ (username \in {"None", ""} \/ password \in {"None", ""})) =>
            /\ pc' = "idle"
            /\ outcome' = "MissingCredentials"
            /\ log' = log
            /\ token' = token
            /\ expiry' = expiry ]_vars

\* C6 witness: the refresh of the auth-retry path failed for missing credentials
C6_Witness ==
    /\ FetchEnded
    /\ outcome = "MissingCredentials"
    /\ ctx = "retry"
    /\ Count(log, "auth") = 0

----------------------------------------------------------------------------
(* C7 *)

\* C7, as stated: one fetch issues at most four network calls, at most two to
\* the auth endpoint and at most two to the query endpoint.
C7_AtMostFourCalls ==
    op = "fetch" =>
        /\ Count(log, "auth") <= 2
        /\ Count(log, "query") <= 2
        /\ Count(log, "auth") + Count(log, "query") <= 4

\* C7, amended: one fetch issues at most five network calls, at most three to
\* the auth endpoint and at most two to the query endpoint.
C7_AtMostFiveCalls ==
    op = "fetch" =>
        /\ Count(log, "auth") <= 3
        /\ Count(log, "query") <= 2
        /\ Count(log, "auth") + Count(log, "query") <= 5

\* C7 witness: a fetch that made three auth requests and two queries
C7_Witness ==
    /\ FetchEnded
    /\ Count(log, "auth") = 3
    /\ Count(log, "query") = 2

----------------------------------------------------------------------------
(* C8 *)

\* C8: one fetch sends at most two queries, and a second one only when the
\* first was rejected for authentication and the refresh called on that
\* rejection installed a token.
C8_SecondQueryOnlyAfterAuthRetry ==
    op = "fetch" =>
        /\ Count(log, "query") <= 2
        /\ Count(log, "query") = 2 =>
               /\ AuthRejected(firstResp)
               /\ IsPrefix(<<"refresh", "auth", "installed">>, AfterFirstResp(log))

\* C8 witness: a second query in flight after a marker rejection
C8_Witness ==
    /\ op = "fetch"
    /\ pc = "query_wait"
    /\ attempt = 1
    /\ firstResp.status = 200
    /\ Count(log, "query") = 2

----------------------------------------------------------------------------
(* C9 *)

\* C9: in every reachable state the stored expiry is the one decoded from the
\* stored token.
C9_ExpiryFollowsToken == expiry = JwtExpiry(token)

\* C9 witness: a refresh replaced a token with a different expiry
C9_Witness ==
    /\ pc = "idle"
    /\ outcome = "ok"
    /\ lastAuth.kind = "token"
    /\ token = lastAuth.tok
    /\ expiry # twin.expiry
    /\ expiry # None

----------------------------------------------------------------------------
(* C10 *)

\* C10: token and expiry change only in the step that handles an auth response
\* which carries no error (4xx, 5xx) status and holds a non-empty access_token,
\* and they become that token and its expiry; every other step
\* (failed refreshes, every query response) leaves both as they were.
C10_TokenChangesOnlyOnGrant ==
    [][ (token' # token \/ expiry' # expiry) =>
            /\ pc = "auth_wait"
            /\ lastAuth'.status >= 100 /\ lastAuth'.status < 400
            /\ lastAuth'.kind = "token"
            /\ lastAuth'.tok # EmptyToken
            /\ token' = lastAuth'.tok
            /\ log' # log ]_vars

\* C10 witness: a refresh answered 2xx with an empty access_token failed
C10_Witness ==
    /\ pc = "idle"
    /\ outcome = "AuthMissingToken"
    /\ lastAuth.status = 200
    /\ lastAuth.tok = EmptyToken

----------------------------------------------------------------------------
(* C13 *)

\* C13: no fetch ends in the fallback error of line 140: attempt 1 returns a
\* reading or raises an error of its own.
C13_FallbackUnreachable ==
    /\ outcome # "RetryExhausted"
    /\ (FetchEnded /\ attempt = 1) =>
           /\ log[Len(log)] \in {"qresp", "refresh", "auth"}
           /\ outcome \in {"Reading", "QueryHTTPError", "GraphQLErrors",
                           "NoCurrentPower", "JSONDecodeError", "AttributeError",
                           "FieldError", "RequestException", "MissingCredentials",
                           "AuthHTTPError", "AuthMissingToken"}

\* C13 witness: both attempts were rejected for authentication and the call
\* ended with attempt 1's own error
C13_Witness ==
    /\ FetchEnded
    /\ attempt = 1
    /\ AuthRejected(firstResp)
    /\ AuthRejected(lastResp)
    /\ outcome = "GraphQLErrors"

----------------------------------------------------------------------------
(* C14 *)

\* C14: the response to the query of attempt 1, when it is an authentication
\* rejection, ends the call: HTTP 401 or 403 with the query endpoint's HTTP
\* error, a 2xx body with a marker in its errors with the GraphQL-errors error;
\* nothing is done after that response (no refresh, no third query).
C14_RejectionOnAttempt1IsTerminal ==
    (op = "fetch" /\ Count(log, "qresp") = 2) =>
        /\ lastResp.status \in {401, 403} =>
               /\ pc = "idle"
               /\ outcome = "QueryHTTPError"
               /\ log[Len(log)] = "qresp"
        /\ (lastResp.status \in {200, 201} /\ AuthRejected(lastResp)) =>
               /\ pc = "idle"
               /\ outcome = "GraphQLErrors"
               /\ log[Len(log)] = "qresp"
        /\ Count(log, "query") = 2

\* C14 witness: attempt 1 was answered 200 with an Unauthorized error
C14_Witness ==
    /\ FetchEnded
    /\ Count(log, "qresp") = 2
    /\ lastResp.status = 200
    /\ lastResp.errors = << "Not found", "Unauthorized" >>
    /\ firstResp.status = 401

----------------------------------------------------------------------------
(* C15 *)

\* C15, as stated: every auth response whose status is outside 200-299 (1xx and
\* 3xx included) makes the refresh fail with the auth endpoint's HTTP error, the
\* body's access_token never read.
C15_Non2xxAuthFails ==
    (lastAuth.status > 0 /\ ~(lastAuth.status >= 200 /\ lastAuth.status < 300)) =>
        /\ pc = "idle"
        /\ outcome = "AuthHTTPError"
        /\ log[Len(log)] = "auth"

----------------------------------------------------------------------------
(* C16 *)

\* C16, as stated: a 2xx query response that parses, has no errors key and whose
\* data field is absent or empty (no data key, data null, currentPower missing,
\* null or empty) ends the call with the no-currentPower error, on either
\* attempt, with nothing done after it.
C16_MissingDataIsProtocolError ==
    (op = "fetch" /\ lastResp.status \in {200, 201}
       /\ lastResp.kind \in {"no_data", "data_null", "cp_empty"}) =>
        /\ pc = "idle"
        /\ outcome = "NoCurrentPower"
        /\ log[Len(log)] = "qresp"

----------------------------------------------------------------------------
(* C18 *)

\* C18, as stated: ensure_token_valid run with a non-empty token and a known
\* expiry E calls the refresh if and only if now >= E - 60, and otherwise does
\* nothing to the credential and sends nothing to the auth endpoint.
C18_RefreshIffWithinSkew ==
    [][ (pc = "ensure" /\ token # EmptyToken /\ expiry # None) =>
            IF now >= expiry[1] - 60
            THEN pc' = "refresh" /\ log' = Append(log, "refresh")
            ELSE /\ pc' \notin {"refresh", "auth_wait"}
                 /\ log' \in {log, Append(log, "query")}
                 /\ token' = token
                 /\ expiry' = expiry ]_vars

----------------------------------------------------------------------------
(* C19 *)

\* C19: a query is sent only with the stored token in its header and that token
\* non-empty; an attempt that starts with an empty token calls the refresh
\* first, and from an empty token a query is sent only by the step in which the
\* refresh installed a token.
C19_QueryCarriesToken ==
    [][ /\ (pc' = "query_wait" /\ pc # "query_wait") =>
               /\ bearer' = token'
               /\ bearer' # EmptyToken
               /\ bearer' # <<>>
               /\ token = EmptyToken =>
                      (pc = "auth_wait" /\ Count(log', "installed") = Count(log, "installed") + 1)
        /\ (pc = "ensure" /\ token = EmptyToken) =>
               (pc' = "refresh" /\ log' = Append(log, "refresh")) ]_vars

\* C19 witness: a client built with the empty token has its first query in
\* flight, after one successful refresh
C19_Witness ==
    /\ twin.token = EmptyToken
    /\ op = "fetch"
    /\ pc = "query_wait"
    /\ log = <<"refresh", "auth", "installed", "query">>
    /\ bearer # EmptyToken

----------------------------------------------------------------------------
(* C17 *)

\* C17: once a refresh has replaced the token, the stored token is the one of
\* the latest successful refresh in every later state, through the end of the
\* call (reading or error) and into the next calls, and a query in flight
\* carries the stored token.
C17_RefreshedTokenStays ==
    /\ granted # <<>> => (token = granted /\ expiry = JwtExpiry(granted))
    /\ (op = "fetch" /\ pc = "query_wait") => bearer = token

\* C17 witness: the previous fetch refreshed the token and failed on attempt 1;
\* the first query of this fetch is in flight with that token, no refresh since
C17_Witness ==
    /\ prev = "refreshed_failed1"
    /\ op = "fetch"
    /\ pc = "query_wait"
    /\ log = <<"query">>
    /\ bearer = granted

----------------------------------------------------------------------------
(* C20 *)

\* C20: with every HTTP call completing, a fetch in progress always ends, with
\* a reading or an error; while it runs the attempt index is 0 or 1 and never
\* decreases, and an attempt is entered again only with the index one higher
\* (attempt 0, then attempt 1, never back).
C20_FetchTerminates ==
    /\ (op = "fetch" /\ pc # "idle") ~> (pc = "idle" /\ outcome # "pending")
    /\ [][ (op = "fetch" /\ pc # "idle") =>
               /\ attempt' >= attempt
               /\ attempt' \in {0, 1}
               /\ pc' = "ensure" => attempt' = attempt + 1 ]_vars

\* C20 witness: a fetch went through attempt 0 and attempt 1 and ended in an
\* error of the retried query
C20_Witness ==
    /\ FetchEnded
    /\ attempt = 1
    /\ outcome = "NoCurrentPower"
    /\ Count(log, "query") = 2

----------------------------------------------------------------------------
(* C11 *)

\* C11, as stated: when the fetch of a cycle fails, the loop goes on to its
\* sleep and next cycle unless the invocation is single-shot, in which case it
\* exits.
C11_FailedFetchKeepsPolling ==
    [][ (loop.pc = "fetching" /\ pc' = "idle" /\ outcome' # "Reading") =>
            IF loop.once THEN loop'.pc = "exited" ELSE loop'.pc = "sleep" ]_vars

----------------------------------------------------------------------------
(* C12 *)

\* C12: a cycle calls fetch_current_power once; whatever a cycle wrote to the
\* sinks (gcs or postgres, then the metrics push) it wrote after that call
\* returned a reading; a cycle whose fetch failed wrote nothing.
C12_SinksOnlyAfterReading ==
    /\ loop.fetches <= 1
    /\ loop.pc \in {"fetching", "output", "metrics", "end", "sleep"} => loop.fetches = 1
    /\ loop.writes # <<>> =>
           (loop.fetches = 1 /\ op = "fetch" /\ pc = "idle" /\ outcome = "Reading")
    /\ loop.exit = "fetch_failed" => (loop.writes = <<>> /\ outcome # "Reading")
    /\ loop.writes \in { <<>>, <<"gcs">>, <<"postgres">>, <<"grafana">>,
                         <<"gcs", "grafana">>, <<"postgres", "grafana">> }

\* C12 witness: a later cycle wrote to gcs and pushed the metrics
C12_Witness ==
    /\ now > StartTime
    /\ loop.pc = "sleep"
    /\ loop.writes = <<"gcs", "grafana">>
    /\ loop.fetches = 1

====
